---- MODULE Spec2Model ----
(***************************************************************************)
(* Task scheduler and execution engine of the agent orchestrator:          *)
(*   queue.ts     task registry, task order, folder lock table             *)
(*   executor.ts  executeTask / stopTask and the running-process table     *)
(*   main.ts      runScheduler and the WebSocket message handlers          *)
(* The server runs on a single-threaded event loop: every handler, timer   *)
(* callback and promise continuation runs to its next await without        *)
(* interleaving, so each is one action.                                    *)
(***************************************************************************)
EXTENDS Integers, Sequences, FiniteSets, TLC

\* ---------------------------------------------------------------- bounds
MaxTasks == 3          \* tasks created in one run (ids 1..MaxTasks)
MaxLines == 1          \* output lines one process writes
MaxClock == 1          \* readings of Date.now() are 0..MaxClock
MaxRequests == 2       \* messages other than create_task in one run
MaxTimedTasks == 2     \* tasks created in one run of TimedSpec
MaxLiveTasks == 2      \* tasks created in one run of LiveSpec
MaxBytes == 3          \* bytes one process writes on one pipe in StreamSpec
MaxControlTasks == 2   \* tasks created in one run of ControlSpec
MaxSlashes == 2        \* separators appended to a folder path of a request
MaxMirrorTasks == 2    \* tasks created in one run of MirrorSpec

\* ------------------------------------------------------- program constants
SpawnFailedCode == -1  \* exitCode of the catch path of executeTask
SigKillCode == -9      \* exitCode written by stopTask
SigTermExit == 143     \* exit status of a process ended by proc.kill()

Ids == 1..MaxTasks

\* Paths are sequences of characters, so that normalizePath is computed.
PathInputs == { <<"/", "a">>, <<"/", "a", "/">>, <<"/", "b">> }
\* "codex" takes the same path through executeTask as "claude"; "gemini"
\* is an agent kind buildCommand does not know.
AgentInputs == { "claude", "gemini" }
StreamPrefixes == { "" }

StreamNames == { "stdout", "stderr" }
StderrPrefix == "[stderr] "
StoppedLine == "[system] Task stopped by user"
ErrorLine == "[error]"
ProcessLine == "out"

\* An optional field (exitCode?, startedAt?, completedAt?) is <<>> or <<v>>.
None == <<>>
Some(v) == <<v>>

\* --------------------------------------------------------------- state
VARIABLES
    tasks,             \* queue.ts tasks: Map id -> Task
    taskOrder,         \* queue.ts taskOrder: id[]
    folderLocks,       \* queue.ts folderLocks: Map folderPath -> id
    runningProcesses,  \* executor.ts runningProcesses: keys of the Map
    schedulerRunning,  \* main.ts schedulerRunning
    timers,            \* pending setTimeout(runScheduler, 100) callbacks
    exec,              \* per id: where its executeTask call stands
    proc,              \* per id: the spawned operating-system process
    notes,             \* per id: notifications broadcast about the task
    nextId,            \* next fresh id (crypto.randomUUID)
    now,               \* Date.now()
    requests,          \* messages other than create_task handled so far
    errors,            \* ws.sendError calls to the requesting client
    client,            \* app.js: one browser page, its tasks and taskOrder
    streams            \* the two pipes of one process and their readStream

serverVars == << tasks, taskOrder, folderLocks, runningProcesses,
                 schedulerRunning, timers, exec, proc, notes, nextId, now,
                 requests, errors, client >>

vars == << tasks, taskOrder, folderLocks, runningProcesses, schedulerRunning,
           timers, exec, proc, notes, nextId, now, requests, errors,
           client, streams >>

\* The server state as one value, threaded through the handlers.
State ==
    [ tasks |-> tasks, taskOrder |-> taskOrder, folderLocks |-> folderLocks,
      runningProcesses |-> runningProcesses,
      schedulerRunning |-> schedulerRunning, timers |-> timers,
      exec |-> exec, proc |-> proc, notes |-> notes, nextId |-> nextId,
      now |-> now, requests |-> requests, errors |-> errors,
      client |-> client ]

\* ------------------------------------------------------------- queue.ts
\* Mutant: the path is stored as given.
normalizePath_identity(p) == p

RECURSIVE normalizePath(_)
normalizePath(p) ==
    IF Len(p) > 0 /\ p[Len(p)] = "/"
    THEN normalizePath(SubSeq(p, 1, Len(p) - 1))
    ELSE p

\* Mutant: the new id is put at the front of the task order.
createTask_front(s, folderPath, agent) ==
    LET id == s.nextId
        task == [ id |-> id,
                  folderPath |-> normalizePath(folderPath),
                  agent |-> agent,
                  status |-> "queued",
                  terminalOutput |-> <<>>,
                  exitCode |-> None,
                  createdAt |-> s.now,
                  startedAt |-> None,
                  completedAt |-> None ]
    IN [ s EXCEPT !.tasks = (id :> task) @@ s.tasks,
                  !.taskOrder = << id >> \o s.taskOrder,
                  !.nextId = id + 1 ]

createTask(s, folderPath, agent) ==
    LET id == s.nextId
        task == [ id |-> id,
                  folderPath |-> normalizePath(folderPath),
                  agent |-> agent,
                  status |-> "queued",
                  terminalOutput |-> <<>>,
                  exitCode |-> None,
                  createdAt |-> s.now,
                  startedAt |-> None,
                  completedAt |-> None ]
    IN [ s EXCEPT !.tasks = (id :> task) @@ s.tasks,
                  !.taskOrder = Append(s.taskOrder, id),
                  !.nextId = id + 1 ]

\* Mutant: the update to running writes the status only.
updateTaskRunning_statusOnly(s, taskId) ==
    IF taskId \notin DOMAIN s.tasks THEN s
    ELSE [ s EXCEPT !.tasks[taskId].status = "running" ]

\* updateTask(taskId, {status: "running", startedAt: Date.now()})
updateTaskRunning(s, taskId) ==
    IF taskId \notin DOMAIN s.tasks THEN s
    ELSE [ s EXCEPT !.tasks[taskId].status = "running",
                    !.tasks[taskId].startedAt = Some(s.now) ]

\* Mutant: the terminal update writes completed whatever the exit code.
updateTaskTerminal_completed(s, taskId, status, exitCode) ==
    IF taskId \notin DOMAIN s.tasks THEN s
    ELSE [ s EXCEPT !.tasks[taskId].status = "completed",
                    !.tasks[taskId].exitCode = Some(exitCode),
                    !.tasks[taskId].completedAt = Some(s.now) ]

\* updateTask(taskId, {status, exitCode, completedAt: Date.now()})
updateTaskTerminal(s, taskId, status, exitCode) ==
    IF taskId \notin DOMAIN s.tasks THEN s
    ELSE [ s EXCEPT !.tasks[taskId].status = status,
                    !.tasks[taskId].exitCode = Some(exitCode),
                    !.tasks[taskId].completedAt = Some(s.now) ]

indexOf(order, taskId) ==
    IF \E i \in 1..Len(order) : order[i] = taskId
    THEN CHOOSE i \in 1..Len(order) :
             order[i] = taskId /\ \A j \in 1..(i - 1) : order[j] # taskId
    ELSE 0

splice(order, index) ==
    [ i \in 1..(Len(order) - 1) |->
        IF i < index THEN order[i] ELSE order[i + 1] ]

removeFromMap(m, k) == [ x \in DOMAIN m \ {k} |-> m[x] ]

\* Mutant: removeTask leaves the id in the task order.
removeTask_keepOrder(s, taskId) ==
    IF taskId \notin DOMAIN s.tasks THEN s
    ELSE LET task == s.tasks[taskId]
             locks == IF task.folderPath \in DOMAIN s.folderLocks
                         /\ s.folderLocks[task.folderPath] = taskId
                      THEN removeFromMap(s.folderLocks, task.folderPath)
                      ELSE s.folderLocks
         IN [ s EXCEPT !.folderLocks = locks,
                       !.tasks = removeFromMap(s.tasks, taskId) ]

\* Mutant: removeTask leaves the lock table alone.
removeTask_keepLock(s, taskId) ==
    IF taskId \notin DOMAIN s.tasks THEN s
    ELSE LET index == indexOf(s.taskOrder, taskId)
         IN [ s EXCEPT !.tasks = removeFromMap(s.tasks, taskId),
                       !.taskOrder = IF index > 0
                                     THEN splice(s.taskOrder, index)
                                     ELSE s.taskOrder ]

removeTask(s, taskId) ==
    IF taskId \notin DOMAIN s.tasks THEN s
    ELSE LET task == s.tasks[taskId]
             locks == IF task.folderPath \in DOMAIN s.folderLocks
                         /\ s.folderLocks[task.folderPath] = taskId
                      THEN removeFromMap(s.folderLocks, task.folderPath)
                      ELSE s.folderLocks
             index == indexOf(s.taskOrder, taskId)
         IN [ s EXCEPT !.folderLocks = locks,
                       !.tasks = removeFromMap(s.tasks, taskId),
                       !.taskOrder = IF index > 0
                                     THEN splice(s.taskOrder, index)
                                     ELSE s.taskOrder ]

removeTaskResult(s, taskId) == taskId \in DOMAIN s.tasks

\* Mutant: the two directions are exchanged.
reorderNewIndex_inverted(s, taskId, direction) ==
    LET index == indexOf(s.taskOrder, taskId)
    IN IF direction = "up" THEN index + 1 ELSE index - 1

reorderNewIndex(s, taskId, direction) ==
    LET index == indexOf(s.taskOrder, taskId)
    IN IF direction = "up" THEN index - 1 ELSE index + 1

reorderTaskResult(s, taskId, direction) ==
    /\ indexOf(s.taskOrder, taskId) # 0
    /\ reorderNewIndex(s, taskId, direction) >= 1
    /\ reorderNewIndex(s, taskId, direction) <= Len(s.taskOrder)

reorderTask(s, taskId, direction) ==
    IF ~reorderTaskResult(s, taskId, direction) THEN s
    ELSE LET index == indexOf(s.taskOrder, taskId)
             newIndex == reorderNewIndex(s, taskId, direction)
         IN [ s EXCEPT !.taskOrder =
                [ s.taskOrder EXCEPT ![index] = s.taskOrder[newIndex],
                                     ![newIndex] = s.taskOrder[index] ] ]

\* Mutant: the lock table is not consulted.
canStartTask_ignoreLock(locks, task) == TRUE

canStartTask(locks, task) ==
    \/ task.folderPath \notin DOMAIN locks
    \/ locks[task.folderPath] = task.id

acquireFolderLockResult(locks, task) == canStartTask(locks, task)

\* Mutant: the entry is set whoever holds the folder.
acquireFolderLock_overwrite(locks, task) ==
    (task.folderPath :> task.id) @@ locks

\* Mutant: the lock is granted without being recorded.
acquireFolderLock_none(locks, task) == locks

acquireFolderLock(locks, task) ==
    IF ~canStartTask(locks, task) THEN locks
    ELSE (task.folderPath :> task.id) @@ locks

\* Mutant: the entry of the folder is deleted whoever holds it.
releaseFolderLock_any(locks, task) ==
    removeFromMap(locks, task.folderPath)

releaseFolderLock(locks, task) ==
    IF task.folderPath \in DOMAIN locks /\ locks[task.folderPath] = task.id
    THEN removeFromMap(locks, task.folderPath)
    ELSE locks

\* The loop of getNextRunnableTasks from position i on; runnable is the
\* list built so far and foldersToStart the folders already chosen.
RECURSIVE runnableFrom(_, _, _, _)
runnableFrom(s, i, runnable, foldersToStart) ==
    IF i > Len(s.taskOrder) THEN runnable
    ELSE LET taskId == s.taskOrder[i]
         IN IF taskId \notin DOMAIN s.tasks
               \/ s.tasks[taskId].status # "queued"
            THEN runnableFrom(s, i + 1, runnable, foldersToStart)
            ELSE IF ~canStartTask(s.folderLocks, s.tasks[taskId])
                    \/ s.tasks[taskId].folderPath \in foldersToStart
            THEN runnableFrom(s, i + 1, runnable, foldersToStart)
            ELSE runnableFrom(s, i + 1, Append(runnable, taskId),
                              foldersToStart \cup {s.tasks[taskId].folderPath})

reverse(seq) == [ i \in 1..Len(seq) |-> seq[Len(seq) + 1 - i] ]

\* Mutant: only the first runnable task, as getNextRunnableTask returns.
getNextRunnableTasks_first(s) ==
    LET r == runnableFrom(s, 1, <<>>, {})
    IN IF r = <<>> THEN r ELSE << Head(r) >>

\* Mutant: the task order is scanned from its end.
getNextRunnableTasks_lifo(s) ==
    runnableFrom([ s EXCEPT !.taskOrder = reverse(@) ], 1, <<>>, {})

\* Mutant: every queued task that may start, several per folder.
getNextRunnableTasks_allQueued(s) ==
    SelectSeq(s.taskOrder,
              LAMBDA taskId :
                /\ taskId \in DOMAIN s.tasks
                /\ s.tasks[taskId].status = "queued"
                /\ canStartTask(s.folderLocks, s.tasks[taskId]))

getNextRunnableTasks(s) == runnableFrom(s, 1, <<>>, {})

\* ------------------------------------------------------ frontend app.js
\* The page before it is loaded: no connection, "tasks = new Map()" and
\* "taskOrder = []".
NoClient == [ connected |-> FALSE, tasks |-> <<>>, taskOrder |-> <<>> ]

\* taskOrder.filter((id) => id !== msg.taskId)
filterOut(order, taskId) == SelectSeq(order, LAMBDA id : id # taskId)

\* handleMessage(msg) of the page c.
handleMessage(c, msg) ==
    CASE msg.type = "task_added" ->
            [ c EXCEPT !.tasks = (msg.taskId :> msg.task[1]) @@ @,
                       !.taskOrder = Append(@, msg.taskId) ]
      [] msg.type = "task_updated" ->
            [ c EXCEPT !.tasks = (msg.taskId :> msg.task[1]) @@ @ ]
      [] msg.type = "task_output" ->
            IF msg.taskId \in DOMAIN c.tasks
            THEN [ c EXCEPT !.tasks[msg.taskId].terminalOutput =
                              Append(@, msg.output) ]
            ELSE c
      [] msg.type = "task_removed" ->
            [ c EXCEPT !.tasks = removeFromMap(@, msg.taskId),
                       !.taskOrder = filterOut(@, msg.taskId) ]
      [] msg.type = "queue_reordered" ->
            [ c EXCEPT !.taskOrder = msg.taskIds ]
      [] OTHER -> c

\* --------------------------------------------------------- websocket.ts
\* What broadcast() hands to the connected clients, kept per task id.
Note(type, status, output, exitCode) ==
    [ type |-> type, status |-> status, output |-> output,
      exitCode |-> exitCode ]

\* JSON.stringify(message): task_added and task_updated carry the task as
\* it is in the registry when broadcast is called.
WSMessage(s, taskId, message) ==
    [ type |-> message.type, taskId |-> taskId,
      task |-> IF message.type \in {"task_added", "task_updated"}
               THEN << s.tasks[taskId] >> ELSE << >>,
      output |-> message.output, taskIds |-> << >> ]

\* client.send(data) for the page, when it is among the clients; the page
\* handles the message in ws.onmessage.
send(c, msg) == IF c.connected THEN handleMessage(c, msg) ELSE c

broadcast(s, taskId, message) ==
    [ s EXCEPT !.notes[taskId] = Append(@, message),
               !.client = send(@, WSMessage(s, taskId, message)) ]

broadcastTaskAdded(s, taskId) ==
    broadcast(s, taskId, Note("task_added", s.tasks[taskId].status, "", None))

broadcastTaskUpdated(s, taskId) ==
    broadcast(s, taskId, Note("task_updated", s.tasks[taskId].status, "",
                              s.tasks[taskId].exitCode))

broadcastTaskOutput(s, taskId, output) ==
    broadcast(s, taskId, Note("task_output", "", output, None))

broadcastTaskCompleted(s, taskId, exitCode) ==
    broadcast(s, taskId, Note("task_completed", "", "", Some(exitCode)))

broadcastTaskRemoved(s, taskId) ==
    broadcast(s, taskId, Note("task_removed", "", "", None))

\* The message is about no single task: it is sent, and kept with no id.
broadcastQueueReordered(s, taskIds) ==
    [ s EXCEPT !.client =
        send(@, [ type |-> "queue_reordered", taskId |-> 0, task |-> << >>,
                  output |-> "", taskIds |-> taskIds ]) ]

\* websocket.open: addClient(ws).  The page keeps what it holds.
addClient(s) == [ s EXCEPT !.client.connected = TRUE ]

\* websocket.close: removeClient(ws).
removeClient(s) == [ s EXCEPT !.client.connected = FALSE ]

\* ----------------------------------------------------------- executor.ts
buildCommand(task) ==
    CASE task.agent = "claude" ->
            [ ok |-> TRUE, cmd |-> <<"claude", "-p">>, cwd |-> task.folderPath ]
      [] task.agent = "codex" ->
            [ ok |-> TRUE, cmd |-> <<"codex", "exec", "-C">>, cwd |-> <<>> ]
      [] OTHER ->
            [ ok |-> FALSE, cmd |-> <<>>, cwd |-> <<>> ]

\* task.terminalOutput.push(line): the task object is the registry's while
\* the task is in the Map; after removeTask the object is garbage.
pushOutput(s, taskId, line) ==
    IF taskId \notin DOMAIN s.tasks THEN s
    ELSE [ s EXCEPT !.tasks[taskId].terminalOutput = Append(@, line) ]

\* The onOutput callback runScheduler passes to executeTask.
onOutput(s, taskId, output) == broadcastTaskOutput(s, taskId, output)

\* Mutant: the completion callback schedules no pass.
onComplete_noTimer(s, taskId, exitCode) ==
    LET s1 == broadcastTaskCompleted(s, taskId, exitCode)
    IN IF taskId \in DOMAIN s1.tasks
       THEN broadcastTaskUpdated(s1, taskId)
       ELSE s1

\* The onComplete callback runScheduler passes to executeTask.
onComplete(s, taskId, exitCode) ==
    LET s1 == broadcastTaskCompleted(s, taskId, exitCode)
        s2 == IF taskId \in DOMAIN s1.tasks
              THEN broadcastTaskUpdated(s1, taskId)
              ELSE s1
    IN [ s2 EXCEPT !.timers = @ + 1 ]

\* The call is over: resolved ("done") or rejected.
endCall(s, taskId, pc) ==
    [ s EXCEPT !.exec[taskId] = [ pc |-> pc, folderPath |-> <<>> ] ]

\* Mutant: the catch path reports the completion before the diagnostic.
executeTaskCatch_completeFirst(s, task) ==
    LET s1 == [ s EXCEPT !.runningProcesses = @ \ {task.id},
                         !.folderLocks = releaseFolderLock(@, task) ]
        s2 == updateTaskTerminal(s1, task.id, "error", SpawnFailedCode)
        s3 == onComplete(s2, task.id, SpawnFailedCode)
        s4 == pushOutput(s3, task.id, ErrorLine)
        s5 == onOutput(s4, task.id, ErrorLine)
    IN endCall(s5, task.id, "done")

\* Mutant: the catch path keeps the folder lock.
executeTaskCatch_keepLock(s, task) ==
    LET s1 == [ s EXCEPT !.runningProcesses = @ \ {task.id} ]
        s2 == pushOutput(s1, task.id, ErrorLine)
        s3 == onOutput(s2, task.id, ErrorLine)
        s4 == updateTaskTerminal(s3, task.id, "error", SpawnFailedCode)
        s5 == onComplete(s4, task.id, SpawnFailedCode)
    IN endCall(s5, task.id, "done")

\* catch (error) { ... } of executeTask
executeTaskCatch(s, task) ==
    LET s1 == [ s EXCEPT !.runningProcesses = @ \ {task.id},
                         !.folderLocks = releaseFolderLock(@, task) ]
        s2 == pushOutput(s1, task.id, ErrorLine)
        s3 == onOutput(s2, task.id, ErrorLine)
        s4 == updateTaskTerminal(s3, task.id, "error", SpawnFailedCode)
        s5 == onComplete(s4, task.id, SpawnFailedCode)
    IN endCall(s5, task.id, "done")

\* Mutant: executeTask goes on when the folder is held by another task.
executeTask_noLockCheck(s, task, spawnFails) ==
    LET s1 == [ s EXCEPT !.folderLocks = (task.folderPath :> task.id) @@ @ ]
        s2 == updateTaskRunning(s1, task.id)
    IN IF ~buildCommand(task).ok
       THEN endCall(s2, task.id, "rejected")
       ELSE IF spawnFails
       THEN executeTaskCatch(s2, task)
       ELSE [ s2 EXCEPT
                !.proc[task.id] = [ st |-> "alive", lines |-> 0 ],
                !.runningProcesses = @ \cup {task.id},
                !.exec[task.id] = [ pc |-> "awaiting",
                                    folderPath |-> task.folderPath ] ]

\* executeTask from its call to its first await (or to its end, when it
\* throws or Bun.spawn throws).  spawnFails: Bun.spawn throws.
executeTask(s, task, spawnFails) ==
    IF ~acquireFolderLockResult(s.folderLocks, task)
    THEN endCall(s, task.id, "rejected")
    ELSE LET s1 == [ s EXCEPT !.folderLocks = acquireFolderLock(@, task) ]
             s2 == updateTaskRunning(s1, task.id)
         IN IF ~buildCommand(task).ok
            THEN endCall(s2, task.id, "rejected")
            ELSE IF spawnFails
            THEN executeTaskCatch(s2, task)
            ELSE [ s2 EXCEPT
                     !.proc[task.id] = [ st |-> "alive", lines |-> 0 ],
                     !.runningProcesses = @ \cup {task.id},
                     !.exec[task.id] = [ pc |-> "awaiting",
                                         folderPath |-> task.folderPath ] ]

\* One chunk with one complete line read by readStream.
readStream(s, taskId, prefix) ==
    LET output == prefix \o ProcessLine
        s1 == [ s EXCEPT !.proc[taskId].lines = @ + 1 ]
        s2 == pushOutput(s1, taskId, output)
    IN onOutput(s2, taskId, output)

\* executeTask from "const exitCode = await proc.exited" to its end.
executeTaskResume(s, taskId, exitCode) ==
    LET task == [ id |-> taskId, folderPath |-> s.exec[taskId].folderPath ]
        s1 == [ s EXCEPT !.runningProcesses = @ \ {taskId},
                         !.folderLocks = releaseFolderLock(@, task),
                         !.proc[taskId] = [ st |-> "exited", lines |-> 0 ] ]
        status == IF exitCode = 0 THEN "completed" ELSE "error"
        s2 == updateTaskTerminal(s1, taskId, status, exitCode)
        s3 == onComplete(s2, taskId, exitCode)
    IN endCall(s3, taskId, "done")

\* proc.kill(): SIGTERM to a process that has not exited yet.
kill(p) == IF p.st = "alive" THEN [ p EXCEPT !.st = "killed" ] ELSE p

stopTaskResult(s, taskId) == taskId \in s.runningProcesses

\* Mutant: stopTask keeps the folder lock.
stopTask_keepLock(s, taskId) ==
    IF taskId \notin s.runningProcesses THEN s
    ELSE LET s1 == [ s EXCEPT !.proc[taskId] = kill(@),
                              !.runningProcesses = @ \ {taskId} ]
         IN IF taskId \notin DOMAIN s1.tasks THEN s1
            ELSE pushOutput(
                   updateTaskTerminal(s1, taskId, "error", SigKillCode),
                   taskId, StoppedLine)

\* Mutant: stopTask without its early return.
stopTask_noGuard(s, taskId) ==
    LET s1 == [ s EXCEPT !.proc[taskId] = kill(@),
                         !.runningProcesses = @ \ {taskId} ]
    IN IF taskId \notin DOMAIN s1.tasks THEN s1
       ELSE LET s2 == [ s1 EXCEPT !.folderLocks =
                          releaseFolderLock(@, s1.tasks[taskId]) ]
                s3 == updateTaskTerminal(s2, taskId, "error", SigKillCode)
            IN pushOutput(s3, taskId, StoppedLine)

stopTask(s, taskId) ==
    IF taskId \notin s.runningProcesses THEN s
    ELSE LET s1 == [ s EXCEPT !.proc[taskId] = kill(@),
                              !.runningProcesses = @ \ {taskId} ]
         IN IF taskId \notin DOMAIN s1.tasks THEN s1
            ELSE LET s2 == [ s1 EXCEPT !.folderLocks =
                               releaseFolderLock(@, s1.tasks[taskId]) ]
                     s3 == updateTaskTerminal(s2, taskId, "error", SigKillCode)
                 IN pushOutput(s3, taskId, StoppedLine)

\* --------------------------------------------------------------- main.ts
\* for (const task of tasks) { executeTask(...).catch(...); broadcast }
RECURSIVE dispatch(_, _, _)
dispatch(s, runnable, fails) ==
    IF runnable = <<>> THEN s
    ELSE LET taskId == Head(runnable)
             s1 == executeTask(s, s.tasks[taskId], taskId \in fails)
             s2 == IF taskId \in DOMAIN s1.tasks
                   THEN broadcastTaskUpdated(s1, taskId)
                   ELSE s1
         IN dispatch(s2, Tail(runnable), fails)

\* Mutant: a pass that does not reset its flag.
runScheduler_noReset(s, fails) ==
    IF s.schedulerRunning THEN s
    ELSE LET s1 == [ s EXCEPT !.schedulerRunning = TRUE ]
         IN dispatch(s1, getNextRunnableTasks(s1), fails)

runScheduler(s, fails) ==
    IF s.schedulerRunning THEN s
    ELSE LET s1 == [ s EXCEPT !.schedulerRunning = TRUE ]
             s2 == dispatch(s1, getNextRunnableTasks(s1), fails)
         IN [ s2 EXCEPT !.schedulerRunning = FALSE ]

\* The ids a pass started from s would dispatch.
Dispatched(s) ==
    LET r == getNextRunnableTasks(s) IN { r[i] : i \in 1..Len(r) }

\* handleClientMessage, one operator per message type.
handleCreateTask(s, folderPath, agent, fails) ==
    LET s1 == createTask(s, folderPath, agent)
        s2 == broadcastTaskAdded(s1, s.nextId)
    IN runScheduler(s2, fails)

received(s) == [ s EXCEPT !.requests = @ + 1 ]

handleReorderTask(s, taskId, direction) ==
    LET s1 == reorderTask(received(s), taskId, direction)
    IN IF reorderTaskResult(s, taskId, direction)
       THEN broadcastQueueReordered(s1, s1.taskOrder)
       ELSE s1

handleRemoveTask(s, taskId) ==
    IF removeTaskResult(s, taskId)
    THEN broadcastTaskRemoved(removeTask(received(s), taskId), taskId)
    ELSE received(s)

handleStopTask(s, taskId) ==
    IF stopTaskResult(s, taskId)
    THEN LET s1 == stopTask(received(s), taskId)
         IN IF taskId \in DOMAIN s1.tasks
            THEN broadcastTaskUpdated(s1, taskId)
            ELSE s1
    ELSE received(s)

\* ws.sendError(clientWs, message)
sendError(s) == [ s EXCEPT !.errors = @ + 1 ]

\* A message whose type no case of the switch matches.
handleUnknownType(s) == received(s)

\* websocket.message on input JSON.parse rejects.
messageUnparsable(s) == sendError(received(s))

\* --------------------------------------------------------------- actions
Commit(s) ==
    /\ tasks' = s.tasks
    /\ taskOrder' = s.taskOrder
    /\ folderLocks' = s.folderLocks
    /\ runningProcesses' = s.runningProcesses
    /\ schedulerRunning' = s.schedulerRunning
    /\ timers' = s.timers
    /\ exec' = s.exec
    /\ proc' = s.proc
    /\ notes' = s.notes
    /\ nextId' = s.nextId
    /\ now' = s.now
    /\ requests' = s.requests
    /\ errors' = s.errors
    /\ client' = s.client
    /\ streams' = streams

\* No pipe is open: both readers are done.
NoStreams ==
    [ input |-> [ st \in StreamNames |-> <<>> ],
      pos |-> [ st \in StreamNames |-> 0 ],
      done |-> [ st \in StreamNames |-> TRUE ],
      decoder |-> <<>>,
      buffer |-> [ st \in StreamNames |-> <<>> ],
      terminalOutput |-> <<>> ]

ServerInit ==
    /\ tasks = <<>>
    /\ taskOrder = <<>>
    /\ folderLocks = <<>>
    /\ runningProcesses = {}
    /\ schedulerRunning = FALSE
    /\ timers = 0
    /\ exec = [ t \in Ids |-> [ pc |-> "idle", folderPath |-> <<>> ] ]
    /\ proc = [ t \in Ids |-> [ st |-> "none", lines |-> 0 ] ]
    /\ notes = [ t \in Ids |-> <<>> ]
    /\ nextId = 1
    /\ now = 0
    /\ requests = 0
    /\ errors = 0
    /\ client = NoClient

Init == ServerInit /\ streams = NoStreams

\* websocket.message: {type: "create_task", folderPath, agent, prompt}
CreateTaskMsg ==
    /\ nextId <= MaxTasks
    /\ \E folderPath \in PathInputs, agent \in AgentInputs :
         \E fails \in SUBSET Dispatched(createTask(State, folderPath, agent)) :
            Commit(handleCreateTask(State, folderPath, agent, fails))

\* websocket.message: {type: "reorder_task", taskId, direction}
ReorderTaskMsg ==
    /\ requests < MaxRequests
    /\ \E taskId \in Ids, direction \in {"up", "down"} :
        Commit(handleReorderTask(State, taskId, direction))

\* websocket.message: {type: "remove_task", taskId}
RemoveTaskMsg ==
    /\ requests < MaxRequests
    /\ \E taskId \in Ids : Commit(handleRemoveTask(State, taskId))

\* websocket.message: {type: "stop_task", taskId}
StopTaskMsg ==
    /\ requests < MaxRequests
    /\ \E taskId \in Ids : Commit(handleStopTask(State, taskId))

\* The callback of setTimeout(runScheduler, 100) runs.
TimerFires ==
    /\ timers > 0
    /\ \E fails \in SUBSET Dispatched(State) :
         Commit(runScheduler([ State EXCEPT !.timers = @ - 1 ], fails))

\* A read of one of the two pipes of a spawned process returns a line.
StreamData ==
    \E taskId \in Ids, prefix \in StreamPrefixes :
        /\ exec[taskId].pc = "awaiting"
        /\ proc[taskId].lines < MaxLines
        /\ Commit(readStream(State, taskId, prefix))

\* The exit status of a spawned process: 0 or 1 by itself; after
\* proc.kill() the signal's status, or 0 when it handles the signal.
ExitCodes(p) == IF p.st = "killed" THEN {0, SigTermExit} ELSE {0, 1}

\* A spawned process ends, its pipes close and proc.exited resolves:
\* executeTask resumes after its awaits.
ProcessExit(taskId) ==
    /\ exec[taskId].pc = "awaiting"
    /\ proc[taskId].st \in {"alive", "killed"}
    /\ \E code \in ExitCodes(proc[taskId]) :
         Commit(executeTaskResume(State, taskId, code))

ProcessExits == \E taskId \in Ids : ProcessExit(taskId)

\* Time passes between two events.
Tick ==
    /\ now < MaxClock
    /\ Commit([ State EXCEPT !.now = @ + 1 ])

Next ==
    \/ CreateTaskMsg
    \/ ReorderTaskMsg
    \/ RemoveTaskMsg
    \/ StopTaskMsg
    \/ TimerFires
    \/ StreamData
    \/ ProcessExits

Spec == Init /\ [][Next]_vars

\* setTimeout callbacks run, and every spawned process ends.
Fairness ==
    /\ WF_vars(TimerFires)
    /\ \A taskId \in Ids : WF_vars(ProcessExit(taskId))

\* The same server on fewer tasks, with that fairness.
LiveNext ==
    \/ (nextId <= MaxLiveTasks /\ CreateTaskMsg)
    \/ ReorderTaskMsg
    \/ RemoveTaskMsg
    \/ StopTaskMsg
    \/ TimerFires
    \/ StreamData
    \/ ProcessExits

LiveSpec == Init /\ [][LiveNext]_vars /\ Fairness

\* The same server with the clock advancing, on fewer tasks.
TimedNext ==
    \/ (nextId <= MaxTimedTasks /\ CreateTaskMsg)
    \/ ReorderTaskMsg
    \/ RemoveTaskMsg
    \/ StopTaskMsg
    \/ TimerFires
    \/ StreamData
    \/ ProcessExits
    \/ Tick

TimedSpec == Init /\ [][TimedNext]_vars

\* websocket.message: {type: "no_such_type"}
UnknownTypeMsg ==
    /\ requests < MaxRequests
    /\ Commit(handleUnknownType(State))

\* websocket.message: input that is not JSON
UnparsableMsg ==
    /\ requests < MaxRequests
    /\ Commit(messageUnparsable(State))

\* The same server with every kind of client message, on fewer tasks.
ControlNext ==
    \/ (nextId <= MaxControlTasks /\ CreateTaskMsg)
    \/ ReorderTaskMsg
    \/ RemoveTaskMsg
    \/ StopTaskMsg
    \/ UnknownTypeMsg
    \/ UnparsableMsg
    \/ TimerFires
    \/ StreamData
    \/ ProcessExits

ControlSpec == Init /\ [][ControlNext]_vars

\* new WebSocket(...) of the page is accepted: on page load, and one
\* second after every close (ws.onclose of app.js).
ClientConnects ==
    /\ ~client.connected
    /\ Commit(addClient(State))

\* The connection of the page is closed.
ClientDisconnects ==
    /\ client.connected
    /\ Commit(removeClient(State))

\* The same server observed by a page that connects and disconnects at
\* any moment, on fewer tasks.
MirrorNext ==
    \/ (nextId <= MaxMirrorTasks /\ CreateTaskMsg)
    \/ ReorderTaskMsg
    \/ RemoveTaskMsg
    \/ StopTaskMsg
    \/ TimerFires
    \/ StreamData
    \/ ProcessExits
    \/ ClientConnects
    \/ ClientDisconnects

MirrorSpec == Init /\ [][MirrorNext]_vars

\* ------------------------------------------ executor.ts: readStream
\* The bytes a process writes: an ASCII letter, the line feed and the two
\* bytes of one two-byte UTF-8 character.
Newline == "\n"
LeadByte == "C3"
TrailByte == "A9"
Bytes == { "a", Newline, LeadByte, TrailByte }

\* What the decoder yields: the two-byte character, and the replacement
\* character for a malformed sequence.
TwoByteChar == "U+00E9"
Replacement == "U+FFFD"

\* Well-formed UTF-8: the lead byte and its continuation come together.
ValidUtf8(b) ==
    \A i \in 1..Len(b) :
        /\ b[i] = LeadByte => (i < Len(b) /\ b[i + 1] = TrailByte)
        /\ b[i] = TrailByte => (i > 1 /\ b[i - 1] = LeadByte)

StreamInputs ==
    UNION { { b \in [ 1..n -> Bytes ] : ValidUtf8(b) } : n \in 0..MaxBytes }

\* decoder.decode(value, {stream: true}) from byte i of the chunk on:
\* pending is the incomplete sequence the decoder holds between calls.
RECURSIVE decodeFrom(_, _, _, _)
decodeFrom(pending, chunk, i, text) ==
    IF i > Len(chunk) THEN [ text |-> text, pending |-> pending ]
    ELSE IF pending # <<>>
    THEN IF chunk[i] = TrailByte
         THEN decodeFrom(<<>>, chunk, i + 1, Append(text, TwoByteChar))
         ELSE decodeFrom(<<>>, chunk, i, Append(text, Replacement))
    ELSE IF chunk[i] = LeadByte
    THEN decodeFrom(<< LeadByte >>, chunk, i + 1, text)
    ELSE IF chunk[i] = TrailByte
    THEN decodeFrom(<<>>, chunk, i + 1, Append(text, Replacement))
    ELSE decodeFrom(<<>>, chunk, i + 1, Append(text, chunk[i]))

decode(pending, chunk) == decodeFrom(pending, chunk, 1, <<>>)

\* buffer.split("\n") from character i on; cur is the piece being read.
RECURSIVE splitFrom(_, _, _, _)
splitFrom(text, i, lines, cur) ==
    IF i > Len(text) THEN Append(lines, cur)
    ELSE IF text[i] = Newline
    THEN splitFrom(text, i + 1, Append(lines, cur), <<>>)
    ELSE splitFrom(text, i + 1, lines, Append(cur, text[i]))

split(text) == splitFrom(text, 1, <<>>, <<>>)

\* The prefix argument of the readStream call of a pipe.
prefixOf(name) == IF name = "stderr" THEN StderrPrefix ELSE ""

\* prefix ? `${prefix}${line}` : line
withPrefix(prefix, line) == IF prefix # "" THEN << prefix >> \o line ELSE line

\* One turn of the loop of readStream: reader.read() returned a chunk.
readChunk(st, name, chunk) ==
    LET d == decode(st.decoder, chunk)
        lines == split(st.buffer[name] \o d.text)
        rest == lines[Len(lines)]
        complete == SubSeq(lines, 1, Len(lines) - 1)
        outputs == [ i \in 1..Len(complete) |->
                       withPrefix(prefixOf(name), complete[i]) ]
    IN [ st EXCEPT !.decoder = d.pending,
                   !.buffer[name] = rest,
                   !.terminalOutput = @ \o outputs,
                   !.pos[name] = @ + Len(chunk) ]

\* reader.read() returned done: the rest of the buffer is flushed.
flush(st, name) ==
    LET s1 == [ st EXCEPT !.done[name] = TRUE ]
    IN IF st.buffer[name] = <<>> THEN s1
       ELSE [ s1 EXCEPT !.terminalOutput =
                Append(@, withPrefix(prefixOf(name), st.buffer[name])) ]

\* A process was spawned and will write out and err on its two pipes.
openStreams(out, err) ==
    [ input |-> [ st \in StreamNames |-> IF st = "stdout" THEN out ELSE err ],
      pos |-> [ st \in StreamNames |-> 0 ],
      done |-> [ st \in StreamNames |-> FALSE ],
      decoder |-> <<>>,
      buffer |-> [ st \in StreamNames |-> <<>> ],
      terminalOutput |-> <<>> ]

StreamInit ==
    /\ ServerInit
    /\ \E out, err \in StreamInputs : streams = openStreams(out, err)

\* A read of a pipe returns the next bytes, however many the pipe holds.
ReadChunk ==
    \E name \in StreamNames, n \in 1..MaxBytes :
        /\ ~streams.done[name]
        /\ streams.pos[name] + n <= Len(streams.input[name])
        /\ streams' = readChunk(streams, name,
                         SubSeq(streams.input[name], streams.pos[name] + 1,
                                streams.pos[name] + n))
        /\ UNCHANGED serverVars

\* A pipe is closed once all its bytes were read.
StreamClose ==
    \E name \in StreamNames :
        /\ ~streams.done[name]
        /\ streams.pos[name] = Len(streams.input[name])
        /\ streams' = flush(streams, name)
        /\ UNCHANGED serverVars

StreamNext == ReadChunk \/ StreamClose

\* The two readStream calls of one executeTask call, on every content and
\* every chunking of the two pipes.
StreamSpec == StreamInit /\ [][StreamNext]_vars

\* ------------------------------------------------------------ properties
Terminal(status) == status \in {"completed", "error"}

InRegistry(t) == t \in DOMAIN tasks

HoldsLock(locks, t) == \E f \in DOMAIN locks : locks[f] = t

Lines(t) == { tasks[t].terminalOutput[i] :
                i \in 1..Len(tasks[t].terminalOutput) }

Completions(t) ==
    Cardinality({ i \in 1..Len(notes[t]) : notes[t][i].type = "task_completed" })

\* The process of t has been spawned and has not exited.
Alive(t) == proc[t].st \in {"alive", "killed"}

\* u is queued and no queued task of its folder stands before it.
EarliestQueued(u) ==
    /\ InRegistry(u)
    /\ tasks[u].status = "queued"
    /\ \A v \in DOMAIN tasks :
         (v # u /\ tasks[v].status = "queued"
            /\ tasks[v].folderPath = tasks[u].folderPath)
         => indexOf(taskOrder, u) < indexOf(taskOrder, v)

\* This step moves t from queued (or from not yet created) to running:
\* executeTask wrote status running and startedAt.
StartedNow(t) ==
    /\ ~InRegistry(t) \/ tasks[t].status = "queued"
    /\ t \in DOMAIN tasks'
    /\ tasks'[t].startedAt # None

\* C1: in every reachable state at most one task of the registry with a
\* given folderPath has status running.
C1_OneRunningPerFolder ==
    \A t, u \in DOMAIN tasks :
        (/\ tasks[t].status = "running"
         /\ tasks[u].status = "running"
         /\ tasks[t].folderPath = tasks[u].folderPath) => t = u

\* Three tasks of one folder: one ended, one running, one still queued.
C1_Witness ==
    \E t, u, v \in DOMAIN tasks :
        /\ tasks[t].folderPath = tasks[u].folderPath
        /\ tasks[u].folderPath = tasks[v].folderPath
        /\ Terminal(tasks[t].status)
        /\ tasks[u].status = "running"
        /\ tasks[v].status = "queued"

\* C2: at most one spawned process that has not exited exists per folder,
\* also after the earlier task was stopped or removed while running.
C2_OneProcessPerFolder ==
    \A t, u \in Ids :
        (Alive(t) /\ Alive(u) /\ exec[t].folderPath = exec[u].folderPath)
        => t = u

\* C3 as claimed: a task created while its folder has no lock is moved to
\* running by the scheduling pass that follows its creation.
C3_StartedAtCreation ==
    [][ \A t \in Ids :
          (/\ ~InRegistry(t)
           /\ t \in DOMAIN tasks'
           /\ tasks'[t].folderPath \notin DOMAIN folderLocks)
          => tasks'[t].startedAt # None ]_vars

\* C3 as amended: a task created while its folder has no lock and no queued
\* task of that folder stands before it is moved to running by the pass
\* that follows its creation (and is running after it unless its spawn
\* failed), whatever is running in other folders.
C3_StartedAtCreationUnlessQueuedBefore ==
    [][ \A t \in Ids :
          (/\ ~InRegistry(t)
           /\ t \in DOMAIN tasks'
           /\ tasks'[t].folderPath \notin DOMAIN folderLocks
           /\ \A u \in DOMAIN tasks :
                tasks[u].folderPath = tasks'[t].folderPath
                => tasks[u].status # "queued")
          => /\ tasks'[t].startedAt # None
             /\ \/ tasks'[t].status = "running"
                \/ tasks'[t].exitCode = Some(SpawnFailedCode) ]_vars

\* Two tasks of distinct folders running at the same time, the second one
\* created while the first was running.
C3_Witness ==
    \E t, u \in DOMAIN tasks :
        /\ tasks[t].folderPath # tasks[u].folderPath
        /\ tasks[t].status = "running" /\ Alive(t)
        /\ tasks[u].status = "running" /\ Alive(u)

\* C4: when a task of folder F goes from queued to running no task of F
\* that is still queued stands before it in the task order, and a queued
\* task whose folder is locked stays queued.
C4_FifoPerFolder ==
    [][ /\ \A t \in Ids :
             StartedNow(t) =>
               \A u \in DOMAIN tasks' :
                 (/\ u # t
                  /\ tasks'[u].folderPath = tasks'[t].folderPath
                  /\ tasks'[u].status = "queued")
                 => indexOf(taskOrder', t) < indexOf(taskOrder', u)
        /\ \A u \in DOMAIN tasks :
             (/\ tasks[u].status = "queued"
              /\ tasks[u].folderPath \in DOMAIN folderLocks
              /\ u \in DOMAIN tasks')
             => tasks'[u].status = "queued" ]_vars

\* A task created later but moved up runs while the older one of the same
\* folder still waits.
C4_Witness ==
    \E t, u \in DOMAIN tasks :
        /\ u < t
        /\ tasks[t].folderPath = tasks[u].folderPath
        /\ tasks[t].status = "running"
        /\ tasks[u].status = "queued"
        /\ indexOf(taskOrder, t) < indexOf(taskOrder, u)

\* The step is the natural end of the running task t1.
CompletesNow(t1) ==
    /\ InRegistry(t1)
    /\ tasks[t1].status = "running"
    /\ t1 \in DOMAIN tasks'
    /\ exec[t1].pc = "awaiting"
    /\ exec'[t1].pc = "done"

\* T1 completed with exit code 0, its completion callback has a pass
\* pending, and T2 is the next queued task of the same folder.
C5_Pending(t1, t2) ==
    /\ InRegistry(t1)
    /\ tasks[t1].status = "completed"
    /\ tasks[t1].exitCode = Some(0)
    /\ timers > 0
    /\ EarliestQueued(t2)
    /\ tasks[t2].folderPath = tasks[t1].folderPath
    /\ tasks[t2].folderPath \notin DOMAIN folderLocks

\* T2 was moved to running, or a later request removed it or moved
\* another task of its folder before it.
C5_Progressed(t2) ==
    \/ ~InRegistry(t2)
    \/ tasks[t2].startedAt # None
    \/ ~EarliestQueued(t2)

\* C5: when the process of the running T1 exits with code 0, T1 becomes
\* completed with exitCode 0 and the completion callback leaves a pass
\* pending; that pass moves the next queued task T2 of the folder to
\* running without any further request.
C5_AutomaticProgression ==
    /\ [][ \A t1 \in Ids :
             CompletesNow(t1) =>
               /\ tasks'[t1].exitCode # None
               /\ (tasks'[t1].exitCode = Some(0))
                    <=> (tasks'[t1].status = "completed")
               /\ Terminal(tasks'[t1].status)
               /\ timers' = timers + 1 ]_vars
    /\ \A t2 \in Ids :
         (\E t1 \in Ids : C5_Pending(t1, t2)) ~> C5_Progressed(t2)

\* T1 has just completed with exit code 0 while T2 of the same folder is
\* queued, and no reorder, remove or stop request was ever sent.
C5_Witness ==
    \E t1, t2 \in Ids :
        /\ C5_Pending(t1, t2)
        /\ requests = 0

\* The step is stopTask(t) returning true: the process association of t
\* goes away while its executeTask call is still awaiting.
StopsNow(t) ==
    /\ t \in runningProcesses
    /\ t \notin runningProcesses'
    /\ exec'[t].pc = "awaiting"

\* C6: right after stopTask(id) returned true for a task still in the
\* registry, the task is error with exitCode -9 and completedAt set, the
\* cancellation line is in its log, no process is associated with id, id
\* holds no lock and a queued task of its folder satisfies canStartTask.
C6_StopTaskEffect ==
    [][ \A t \in Ids :
          (StopsNow(t) /\ t \in DOMAIN tasks') =>
            /\ tasks'[t].status = "error"
            /\ tasks'[t].exitCode = Some(SigKillCode)
            /\ tasks'[t].completedAt # None
            /\ \E i \in 1..Len(tasks'[t].terminalOutput) :
                 tasks'[t].terminalOutput[i] = StoppedLine
            /\ t \notin runningProcesses'
            /\ ~HoldsLock(folderLocks', t)
            /\ \A u \in DOMAIN tasks' :
                 (/\ tasks'[u].status = "queued"
                  /\ tasks'[u].folderPath = tasks'[t].folderPath)
                 => canStartTask(folderLocks', tasks'[u]) ]_vars

\* A stopped task whose process has not ended yet, with a queued task of
\* the same folder that may now start.
C6_Witness ==
    \E t, u \in DOMAIN tasks :
        /\ tasks[t].exitCode = Some(SigKillCode)
        /\ exec[t].pc = "awaiting"
        /\ StoppedLine \in Lines(t)
        /\ tasks[u].status = "queued"
        /\ tasks[u].folderPath = tasks[t].folderPath
        /\ canStartTask(folderLocks, tasks[u])

\* C7: for a task cancelled by stopTask, the natural completion path of
\* executeTask leaves status, exitCode and completedAt as the cancel path
\* set them.
C7_CompletionAfterCancelIsNoOp ==
    [][ \A t \in DOMAIN tasks :
          (/\ tasks[t].exitCode = Some(SigKillCode)
           /\ exec[t].pc = "awaiting"
           /\ exec'[t].pc = "done"
           /\ t \in DOMAIN tasks')
          => /\ tasks'[t].status = tasks[t].status
             /\ tasks'[t].exitCode = tasks[t].exitCode
             /\ tasks'[t].completedAt = tasks[t].completedAt ]_vars

\* executeTask(t) is over and never spawned a process: Bun.spawn threw.
SpawnFailed(t) == exec[t].pc = "done" /\ proc[t].st = "none"

\* C8: a task whose process could not be spawned is error with exitCode
\* -1, has the diagnostic line in its log, had its completion reported
\* exactly once, holds no lock and has no process association.
C8_SpawnFailure ==
    \A t \in Ids :
        SpawnFailed(t) =>
          /\ Completions(t) = 1
          /\ ~HoldsLock(folderLocks, t)
          /\ t \notin runningProcesses
          /\ InRegistry(t) =>
               /\ tasks[t].status = "error"
               /\ tasks[t].exitCode = Some(SpawnFailedCode)
               /\ tasks[t].completedAt # None
               /\ ErrorLine \in Lines(t)

\* A task whose spawn failed, and a later task of the same folder that
\* runs.
C8_Witness ==
    \E t, u \in DOMAIN tasks :
        /\ SpawnFailed(t)
        /\ tasks[t].exitCode = Some(SpawnFailedCode)
        /\ t < u
        /\ tasks[u].folderPath = tasks[t].folderPath
        /\ tasks[u].status = "running"

KnownAgents == { "claude", "codex" }

\* C9: a dispatched task whose agent is neither claude nor codex is error
\* with a diagnostic line in its log and holds no folder lock.
C9_UnknownAgentFails ==
    \A t \in DOMAIN tasks :
        (tasks[t].agent \notin KnownAgents /\ tasks[t].status # "queued")
        => /\ tasks[t].status = "error"
           /\ ErrorLine \in Lines(t)
           /\ ~HoldsLock(folderLocks, t)

\* C10: every task that acquires a folder lock eventually releases it and
\* is terminal (or was removed), given that every process ends.
C10_LockReleased ==
    \A t \in Ids :
        HoldsLock(folderLocks, t)
          ~> (/\ ~HoldsLock(folderLocks, t)
              /\ InRegistry(t) => Terminal(tasks[t].status))

\* The queue and executor tables of s are those of the current state.
SameTables(s) ==
    /\ s.tasks = tasks
    /\ s.taskOrder = taskOrder
    /\ s.folderLocks = folderLocks
    /\ s.runningProcesses = runningProcesses
    /\ s.proc = proc

\* C11: stopTask(id) on an id with no associated running process (the
\* task is queued, terminal, already stopped or does not exist) returns
\* false and leaves the registry, the task order, the lock table and the
\* process table as they are.
C11_StopWithoutProcess ==
    \A t \in Ids :
        t \notin runningProcesses =>
          /\ ~stopTaskResult(State, t)
          /\ SameTables(stopTask(State, t))

\* An already stopped task whose process has not ended, a queued task and
\* an id that was never created: none has a process association.
C11_Witness ==
    \E t, u, v \in Ids :
        /\ InRegistry(t) /\ tasks[t].exitCode = Some(SigKillCode)
        /\ exec[t].pc = "awaiting"
        /\ InRegistry(u) /\ tasks[u].status = "queued"
        /\ ~InRegistry(v) /\ v >= nextId
        /\ {t, u, v} \cap runningProcesses = {}

\* The folder paths createTask stores.
Folders == { normalizePath(p) : p \in PathInputs }

\* The lock table after releaseFolderLock({id: t, folderPath: f}).
Released(t, f) ==
    releaseFolderLock(folderLocks, [ id |-> t, folderPath |-> f ])

\* This step is the end of executeTask(t): its cleanup called
\* releaseFolderLock with the task it was started with.
CleansUpNow(t) == exec[t].pc = "awaiting" /\ exec'[t].pc = "done"

\* C12: releaseFolderLock(task) deletes the entry of task.folderPath only
\* when task.id holds it and leaves every other entry alone; when the
\* folder is unlocked or held by another task the lock table is unchanged,
\* so the late completion of a cancelled task leaves the entry of a newer
\* holder of its folder in place.
C12_ReleaseOnlyByHolder ==
    /\ [](\A t \in Ids, f \in Folders :
            IF f \in DOMAIN folderLocks /\ folderLocks[f] = t
            THEN /\ DOMAIN Released(t, f) = DOMAIN folderLocks \ {f}
                 /\ \A g \in DOMAIN Released(t, f) :
                       Released(t, f)[g] = folderLocks[g]
            ELSE Released(t, f) = folderLocks)
    /\ [][ \A t \in Ids :
             CleansUpNow(t) =>
               \A f \in DOMAIN folderLocks :
                 IF folderLocks[f] = t
                 THEN f \notin DOMAIN folderLocks'
                 ELSE /\ f \in DOMAIN folderLocks'
                      /\ folderLocks'[f] = folderLocks[f] ]_vars

\* The process of a stopped task ended (completedAt is the later clock
\* reading) after a newer task of its folder had taken the lock, and the
\* newer task still holds it.
C12_Witness ==
    \E t, u \in DOMAIN tasks :
        /\ t # u
        /\ StoppedLine \in Lines(t)
        /\ exec[t].pc = "done"
        /\ tasks[t].completedAt = Some(MaxClock)
        /\ tasks[u].folderPath = tasks[t].folderPath
        /\ tasks[u].status = "running"
        /\ tasks[u].startedAt = Some(0)
        /\ exec[u].pc = "awaiting"
        /\ tasks[u].folderPath \in DOMAIN folderLocks
        /\ folderLocks[tasks[u].folderPath] = u

\* C13: reorderTask of the first task up, of the last task down or of an
\* absent id returns false and leaves the task order as it is; any other
\* reorder returns true, exchanges the task with its neighbour in the
\* given direction and leaves every other position, the task map and the
\* lock table as they are.
C13_Reorder ==
    \A t \in Ids, direction \in {"up", "down"} :
        LET i == indexOf(taskOrder, t)
            j == IF direction = "up" THEN i - 1 ELSE i + 1
            s == reorderTask(State, t, direction)
        IN /\ s.tasks = tasks
           /\ s.folderLocks = folderLocks
           /\ IF \/ i = 0
                 \/ direction = "up" /\ i = 1
                 \/ direction = "down" /\ i = Len(taskOrder)
              THEN /\ ~reorderTaskResult(State, t, direction)
                   /\ s.taskOrder = taskOrder
              ELSE /\ reorderTaskResult(State, t, direction)
                   /\ Len(s.taskOrder) = Len(taskOrder)
                   /\ s.taskOrder[i] = taskOrder[j]
                   /\ s.taskOrder[j] = taskOrder[i]
                   /\ \A k \in (1..Len(taskOrder)) \ {i, j} :
                         s.taskOrder[k] = taskOrder[k]

\* Three tasks in the order, the first two exchanged by an earlier
\* reorder: first, interior and last positions all exist.
C13_Witness ==
    /\ Len(taskOrder) = 3
    /\ taskOrder[1] > taskOrder[2]

\* C14: removeTask(id) of a present id returns true, deletes the task from
\* the map and from the task order and deletes the lock entry of its
\* folder if and only if id holds it, every other lock entry staying as it
\* is; of an absent id it returns false and changes nothing.
C14_Remove ==
    \A t \in Ids :
        LET s == removeTask(State, t)
        IN IF t \in DOMAIN tasks
           THEN /\ removeTaskResult(State, t)
                /\ DOMAIN s.tasks = DOMAIN tasks \ {t}
                /\ \A u \in DOMAIN s.tasks : s.tasks[u] = tasks[u]
                /\ s.taskOrder = SelectSeq(taskOrder, LAMBDA x : x # t)
                /\ \A f \in DOMAIN folderLocks :
                      IF f = tasks[t].folderPath /\ folderLocks[f] = t
                      THEN f \notin DOMAIN s.folderLocks
                      ELSE /\ f \in DOMAIN s.folderLocks
                           /\ s.folderLocks[f] = folderLocks[f]
                /\ DOMAIN s.folderLocks \subseteq DOMAIN folderLocks
           ELSE /\ ~removeTaskResult(State, t)
                /\ s = State

\* A task removed while it was running: its folder is unlocked with a
\* task of that folder still queued, and the task running in another
\* folder keeps its lock.
C14_Witness ==
    \E t \in Ids, u, v \in DOMAIN tasks :
        /\ t < nextId /\ ~InRegistry(t)
        /\ exec[t].pc = "awaiting"
        /\ t \in runningProcesses
        /\ exec[t].folderPath \notin DOMAIN folderLocks
        /\ tasks[u].folderPath = exec[t].folderPath
        /\ tasks[u].status = "queued"
        /\ tasks[v].folderPath \in DOMAIN folderLocks
        /\ folderLocks[tasks[v].folderPath] = v
        /\ indexOf(taskOrder, t) = 0

\* The ids given out so far.
UsedIds == 1..(nextId - 1)

\* C15: createTask always returns; the task it stores is queued with an
\* empty output log, createdAt set, no startedAt, completedAt or exitCode,
\* a normalized folder path and an id no task had before; the id is
\* appended at the end of the task order and no existing task, order
\* position or lock entry changes.
C15_Create ==
    \A folderPath \in PathInputs, agent \in AgentInputs :
        LET s == createTask(State, folderPath, agent)
            new == DOMAIN s.tasks \ DOMAIN tasks
        IN /\ Cardinality(new) = 1
           /\ \A id \in new :
                /\ id \notin UsedIds
                /\ s.tasks[id].id = id
                /\ s.tasks[id].status = "queued"
                /\ s.tasks[id].terminalOutput = <<>>
                /\ s.tasks[id].createdAt = now
                /\ s.tasks[id].startedAt = None
                /\ s.tasks[id].completedAt = None
                /\ s.tasks[id].exitCode = None
                /\ s.tasks[id].agent = agent
                /\ s.tasks[id].folderPath \in Folders
                /\ s.taskOrder = Append(taskOrder, id)
           /\ \A u \in DOMAIN tasks : s.tasks[u] = tasks[u]
           /\ s.folderLocks = folderLocks

\* The newest task stands at the end of the order, queued behind the
\* running task of its folder, after an older task was removed.
C15_Witness ==
    \E t, u \in DOMAIN tasks :
        /\ u = nextId - 1
        /\ Len(taskOrder) = 2
        /\ taskOrder[2] = u
        /\ tasks[u].status = "queued"
        /\ tasks[u].startedAt = None
        /\ tasks[t].folderPath = tasks[u].folderPath
        /\ tasks[t].status = "running"
        /\ UsedIds \ DOMAIN tasks # {}

\* The lines written on a pipe: its text cut at the line feeds, without
\* the empty piece after a final line feed.
linesOf(bytes) ==
    LET pieces == split(decode(<<>>, bytes).text)
    IN IF pieces[Len(pieces)] = <<>>
       THEN SubSeq(pieces, 1, Len(pieces) - 1)
       ELSE pieces

\* The lines of the pipe as they are to appear in the output log.
expectedLog(name) ==
    [ i \in 1..Len(linesOf(streams.input[name])) |->
        withPrefix(prefixOf(name), linesOf(streams.input[name])[i]) ]

isStderrLine(output) == Len(output) > 0 /\ output[1] = StderrPrefix

\* The output log restricted to the lines of one pipe.
logOf(name) ==
    SelectSeq(streams.terminalOutput,
              LAMBDA output : isStderrLine(output) <=> name = "stderr")

\* C16: whatever the split of the bytes of the two pipes into chunks, once
\* both pipes are closed the output log holds the lines of stdout, and
\* with the prefix "[stderr] " the lines of stderr, each once and in the
\* order of its pipe; a last line without line feed is flushed at close
\* and a final line feed adds no empty line.
C16_OutputRoundTrip ==
    (\A name \in StreamNames : streams.done[name])
    => \A name \in StreamNames : logOf(name) = expectedLog(name)

\* This step handled a client message that took no effect: no task was
\* removed, no two positions were exchanged and no process was stopped.
RequestFailsNow ==
    /\ requests' = requests + 1
    /\ tasks' = tasks
    /\ taskOrder' = taskOrder
    /\ runningProcesses' = runningProcesses

\* C17: every control request that fails (a reorder at a boundary or of an
\* unknown id, a remove of an unknown id, a stop of a task without running
\* process, a message of unknown type, unparsable input) sends an error
\* notification to the requesting client.
C17_FailedRequestYieldsError ==
    [][ RequestFailsNow => errors' = errors + 1 ]_vars

\* The exit codes a task may end with.
ExitCodeValues == { 0, 1, SigTermExit, SigKillCode, SpawnFailedCode }

\* A task_updated notification about t carrying the status was broadcast.
UpdatedAs(t, status) ==
    \E i \in 1..Len(notes[t]) :
        /\ notes[t][i].type = "task_updated"
        /\ notes[t][i].status = status

\* A task_completed notification about t with the exit code was broadcast.
CompletedWith(t, exitCode) ==
    \E i \in 1..Len(notes[t]) :
        /\ notes[t][i].type = "task_completed"
        /\ notes[t][i].exitCode = Some(exitCode)

\* C18: every task that is terminal while in the registry had a
\* task_updated notification with that status broadcast, and a
\* task_completed notification with the exit code it ended with is
\* eventually broadcast, whether it ended by itself, failed to spawn or
\* was stopped.
C18_TerminalAnnounced ==
    /\ [](\A t \in DOMAIN tasks :
            Terminal(tasks[t].status) => UpdatedAs(t, tasks[t].status))
    /\ \A t \in Ids, exitCode \in ExitCodeValues :
          (/\ InRegistry(t)
           /\ Terminal(tasks[t].status)
           /\ tasks[t].exitCode = Some(exitCode))
          ~> CompletedWith(t, exitCode)

\* C19: a folder path has an entry in the lock table if and only if some
\* task of the registry with that folderPath has status running.
C19_LockedIffRunning ==
    \A f \in Folders :
        f \in DOMAIN folderLocks
        <=> \E t \in DOMAIN tasks :
              tasks[t].folderPath = f /\ tasks[t].status = "running"

\* One folder is locked by its running task; the other has no entry
\* again after its task was stopped, with a task of it still queued.
C19_Witness ==
    \E t, u, v \in DOMAIN tasks :
        /\ tasks[t].status = "running"
        /\ tasks[t].folderPath \in DOMAIN folderLocks
        /\ tasks[u].folderPath # tasks[t].folderPath
        /\ tasks[u].exitCode = Some(SigKillCode)
        /\ tasks[u].folderPath \notin DOMAIN folderLocks
        /\ tasks[v].folderPath = tasks[u].folderPath
        /\ tasks[v].status = "queued"

\* C20: in every state a handler, a scheduling pass or a completion
\* callback can observe, the holder of every lock entry is a task of the
\* registry with that folderPath and status running: never a queued or
\* terminal task, never an id absent from the registry.
C20_HolderIsRunning ==
    \A f \in DOMAIN folderLocks :
        /\ folderLocks[f] \in DOMAIN tasks
        /\ tasks[folderLocks[f]].folderPath = f
        /\ tasks[folderLocks[f]].status = "running"

\* The lock of a folder is held by a newer task while the process of the
\* removed former holder has not ended yet.
C20_Witness ==
    \E t \in Ids, u \in DOMAIN tasks :
        /\ t < u
        /\ ~InRegistry(t)
        /\ exec[t].pc = "awaiting"
        /\ exec[t].folderPath \in DOMAIN folderLocks
        /\ folderLocks[exec[t].folderPath] = u
        /\ exec[u].pc = "awaiting"

\* C21: the task order holds exactly the ids of the tasks in the task
\* map, each once, after any sequence of create, remove and reorder.
C21_OrderMatchesRegistry ==
    /\ { taskOrder[i] : i \in 1..Len(taskOrder) } = DOMAIN tasks
    /\ \A i, j \in 1..Len(taskOrder) :
          taskOrder[i] = taskOrder[j] => i = j

\* Three tasks were created, one was removed and the two left were
\* exchanged by a reorder.
C21_Witness ==
    /\ nextId = 4
    /\ Len(taskOrder) = 2
    /\ taskOrder[1] > taskOrder[2]

\* The status of t goes from one value to the other in this step.
Moves(t, from, to) == tasks[t].status = from /\ tasks'[t].status = to

\* C22: the only status changes of a task are queued -> running,
\* running -> completed and running -> error (a spawn failure takes both
\* queued -> running and running -> error inside one pass); a completed
\* or error task never changes status again.
C22_StatusStateMachine ==
    [][ \A t \in DOMAIN tasks \cap DOMAIN tasks' :
          tasks'[t].status # tasks[t].status =>
            \/ Moves(t, "queued", "running")
            \/ Moves(t, "running", "completed")
            \/ Moves(t, "running", "error")
            \/ /\ Moves(t, "queued", "error")
               /\ tasks'[t].startedAt # None
               /\ tasks'[t].exitCode = Some(SpawnFailedCode) ]_vars

\* C23: for every task of the registry startedAt is set if and only if
\* its status is running, completed or error, and completedAt and
\* exitCode are set if and only if its status is completed or error.
C23_FieldsMatchStatus ==
    \A t \in DOMAIN tasks :
        /\ tasks[t].startedAt # None <=> tasks[t].status # "queued"
        /\ tasks[t].completedAt # None <=> Terminal(tasks[t].status)
        /\ tasks[t].exitCode # None <=> Terminal(tasks[t].status)

\* A task whose spawn failed, a stopped task and a task that was never
\* started, side by side.
C23_Witness ==
    \E t, u, v \in DOMAIN tasks :
        /\ tasks[t].exitCode = Some(SpawnFailedCode)
        /\ tasks[u].exitCode = Some(SigKillCode)
        /\ tasks[v].status = "queued"

\* C24: createdAt, startedAt and completedAt are written at most once per
\* task: a field that is set keeps its value in every later step, also
\* when a natural completion follows a cancel.
C24_TimestampsWrittenOnce ==
    [][ \A t \in DOMAIN tasks \cap DOMAIN tasks' :
          /\ tasks'[t].createdAt = tasks[t].createdAt
          /\ tasks[t].startedAt # None
               => tasks'[t].startedAt = tasks[t].startedAt
          /\ tasks[t].completedAt # None
               => tasks'[t].completedAt = tasks[t].completedAt ]_vars

\* C25: a terminal task is completed if and only if its exitCode is 0,
\* and error if and only if its exitCode is not 0, the codes -1 and -9
\* included.
C25_StatusMatchesExitCode ==
    \A t \in DOMAIN tasks :
        Terminal(tasks[t].status) =>
          /\ tasks[t].exitCode # None
          /\ tasks[t].status = "completed" <=> tasks[t].exitCode = Some(0)
          /\ tasks[t].status = "error" <=> tasks[t].exitCode # Some(0)

\* A task that ended with code 0, one whose process ended with another
\* code, and a stopped one whose process has not ended.
C25_Witness ==
    \E t, u, v \in DOMAIN tasks :
        /\ tasks[t].status = "completed"
        /\ tasks[u].status = "error" /\ exec[u].pc = "done"
        /\ proc[u].st = "exited"
        /\ tasks[v].exitCode = Some(SigKillCode) /\ exec[v].pc = "awaiting"

\* What a scheduling pass started in the current state selects.
Selected ==
    { getNextRunnableTasks(State)[i] :
        i \in 1..Len(getNextRunnableTasks(State)) }

\* C26: a scheduling pass selects, for each folder without lock entry
\* that has a queued task, the queued task of that folder that comes
\* first in the task order, each once, and nothing else: no two tasks of
\* one folder, no task that is not queued, no task of a locked folder.
C26_PassSelection ==
    /\ Selected = { t \in DOMAIN tasks :
                      /\ EarliestQueued(t)
                      /\ tasks[t].folderPath \notin DOMAIN folderLocks }
    /\ Len(getNextRunnableTasks(State)) = Cardinality(Selected)

\* Two queued tasks of one unlocked folder, the newer one moved before
\* the older one: a pass selects the newer one only.
C26_Witness ==
    \E t, u \in DOMAIN tasks :
        /\ t < u
        /\ tasks[t].status = "queued" /\ tasks[u].status = "queued"
        /\ tasks[t].folderPath = tasks[u].folderPath
        /\ tasks[t].folderPath \notin DOMAIN folderLocks
        /\ indexOf(taskOrder, u) < indexOf(taskOrder, t)
        /\ Selected = {u}

\* t is queued, its folder has no lock entry and no pass is pending.
LeftWaiting(t) ==
    /\ InRegistry(t)
    /\ tasks[t].status = "queued"
    /\ tasks[t].folderPath \notin DOMAIN folderLocks
    /\ timers = 0

\* C27: a scheduling pass is run (or left pending by setTimeout) after
\* every change that can unblock work: creation, completion, removal and
\* stop; so once a request has been handled no queued task of an unlocked
\* folder is left without a pass to start it.
C27_PassAfterUnblocking ==
    \A t \in Ids : ~LeftWaiting(t)

\* The lock table after acquireFolderLock({id: t, folderPath: f}).
Acquired(t, f) ==
    acquireFolderLock(folderLocks, [ id |-> t, folderPath |-> f ])

\* C28: acquireFolderLock(task) returns true and sets the entry of the
\* folder to task.id if and only if the folder has no entry or task.id
\* holds it already (the table is then as before for the holder); when
\* another task holds the folder it returns false and the table is
\* unchanged.  Other entries are never touched.
C28_Acquire ==
    \A t \in Ids, f \in Folders :
        LET result == acquireFolderLockResult(folderLocks,
                                              [ id |-> t, folderPath |-> f ])
        IN /\ result <=> (f \notin DOMAIN folderLocks \/ folderLocks[f] = t)
           /\ \A g \in DOMAIN folderLocks \ {f} :
                 g \in DOMAIN Acquired(t, f)
                 /\ Acquired(t, f)[g] = folderLocks[g]
           /\ IF result
              THEN /\ DOMAIN Acquired(t, f) = DOMAIN folderLocks \cup {f}
                   /\ Acquired(t, f)[f] = t
              ELSE Acquired(t, f) = folderLocks
           /\ (f \in DOMAIN folderLocks /\ folderLocks[f] = t)
                => Acquired(t, f) = folderLocks

\* One folder is held by a task with another task of it queued, the
\* other folder is free: the three cases of acquireFolderLock.
C28_Witness ==
    \E t, u \in DOMAIN tasks :
        /\ t # u
        /\ tasks[t].folderPath \in DOMAIN folderLocks
        /\ folderLocks[tasks[t].folderPath] = t
        /\ tasks[u].folderPath = tasks[t].folderPath
        /\ tasks[u].status = "queued"
        /\ Folders \ DOMAIN folderLocks # {}
        /\ exec[t].pc = "awaiting"

\* The folder of the queued task t is held by another task.
Contended(t) ==
    /\ InRegistry(t)
    /\ tasks[t].status = "queued"
    /\ tasks[t].folderPath \in DOMAIN folderLocks
    /\ folderLocks[tasks[t].folderPath] # t

\* C29: executeTask called for a task whose folder is locked by another
\* task aborts without any change: the lock table is as before, the task
\* is still queued without startedAt, no process is spawned or
\* associated, nothing is broadcast and no pass is scheduled; the task is
\* selected by a pass once the lock is gone.
C29_ContentionAborts ==
    \A t \in Ids, spawnFails \in BOOLEAN :
        Contended(t) =>
          LET s == executeTask(State, tasks[t], spawnFails)
          IN /\ SameTables(s)
             /\ s.exec[t].pc = "rejected"
             /\ s.tasks[t].status = "queued"
             /\ s.tasks[t].startedAt = None
             /\ s.notes = notes
             /\ s.timers = timers
             /\ canStartTask(removeFromMap(s.folderLocks, tasks[t].folderPath),
                             s.tasks[t])

\* A queued task whose folder is held by a running task with a live
\* process.
C29_Witness ==
    \E t \in Ids :
        /\ Contended(t)
        /\ folderLocks[tasks[t].folderPath] \in runningProcesses
        /\ proc[folderLocks[tasks[t].folderPath]].st = "alive"

\* The path p followed by k separators.
withSlashes(p, k) == p \o [ i \in 1..k |-> "/" ]

\* The folderPath createTask stores for the path p, in an empty registry.
storedPath(p) ==
    createTask([ tasks |-> <<>>, taskOrder |-> <<>>, nextId |-> 1, now |-> 0 ],
               p, "claude").tasks[1].folderPath

\* Paths that differ in their trailing separators only are stored as one
\* folderPath without trailing separator, and a task of the one cannot
\* start while a task of the other holds the lock.
NormalizeAgrees ==
    LET stored == [ p \in PathInputs, k \in 0..MaxSlashes |->
                      storedPath(withSlashes(p, k)) ]
    IN \A p \in PathInputs, j, k \in 0..MaxSlashes :
         /\ stored[p, j] = stored[p, k]
         /\ stored[p, j] = << >>
              \/ stored[p, j][Len(stored[p, j])] # "/"
         /\ ~canStartTask(
                acquireFolderLock(<<>>,
                   [ id |-> 1, folderPath |-> stored[p, j] ]),
                [ id |-> 2, folderPath |-> stored[p, k] ])

\* No task of the registry has a folderPath ending in a separator.
PathsNormalized ==
    \A t \in DOMAIN tasks :
        tasks[t].folderPath = << >>
        \/ tasks[t].folderPath[Len(tasks[t].folderPath)] # "/"

\* C30: folder paths that differ only in trailing separators are stored
\* as the same folderPath, without trailing separator, so that a task
\* created with one of them cannot acquire the lock while a task created
\* with another holds it; the folderPath of a task never changes.
C30_NormalizedPath ==
    [][ /\ NormalizeAgrees
        /\ PathsNormalized
        /\ PathsNormalized'
        /\ \A t \in DOMAIN tasks \cap DOMAIN tasks' :
             tasks'[t].folderPath = tasks[t].folderPath ]_vars

\* Two tasks of one folder, one running and holding the only lock entry,
\* the other queued behind it, after the first task has produced output.
C30_Witness ==
    \E t, u \in DOMAIN tasks :
        /\ t # u
        /\ tasks[t].folderPath = tasks[u].folderPath
        /\ DOMAIN folderLocks = { tasks[t].folderPath }
        /\ folderLocks[tasks[t].folderPath] = t
        /\ tasks[t].terminalOutput # <<>>
        /\ tasks[u].status = "queued"
        /\ tasks[u].terminalOutput = <<>>

\* The state a scheduling pass works on once it has set its flag.
InsidePass == [ State EXCEPT !.schedulerRunning = TRUE ]

\* The completion callback called inside a pass broadcasts and leaves one
\* more timer: it dispatches nothing and touches no table.
CallbackDefers(t, exitCode) ==
    LET s == onComplete(InsidePass, t, exitCode)
    IN /\ s.timers = timers + 1
       /\ s.schedulerRunning
       /\ SameTables(s)
       /\ s.exec = exec
       /\ s.proc = proc

\* A pass requested now is not turned away by the guard: it dispatches
\* every task getNextRunnableTasks selects.
PassRuns ==
    \A t \in Dispatched(State) :
        runScheduler(State, {}).tasks[t].status = "running"

\* This step reported the completion of t.
CompletionReportedNow(t) == Len(notes'[t]) > Len(notes[t]) /\
    \E i \in (Len(notes[t]) + 1)..Len(notes'[t]) :
        notes'[t][i].type = "task_completed"

\* C31: scheduling passes never nest: no handler starts while a pass is
\* active, the completion callback (also when a spawn failure calls it
\* during dispatch) runs no pass but leaves it to a timer, after the
\* task's own updates, and no requested pass is turned away by the guard.
C31_PassesNeverNest ==
    [][ /\ ~schedulerRunning /\ ~schedulerRunning'
        /\ PassRuns
        /\ \A t \in Ids, exitCode \in ExitCodeValues :
             CallbackDefers(t, exitCode)
        /\ \A t \in Ids :
             CompletionReportedNow(t)
             => /\ timers' > 0
                /\ t \in DOMAIN tasks' => Terminal(tasks'[t].status) ]_vars

\* A spawn failure inside a pass: the task is error, another task of the
\* same pass runs and the pass the callback asked for is pending.
C31_Witness ==
    \E t, u \in DOMAIN tasks :
        /\ SpawnFailed(t)
        /\ tasks[t].status = "error"
        /\ tasks[u].status = "running"
        /\ tasks[u].startedAt = tasks[t].startedAt
        /\ timers > 0
        /\ ~schedulerRunning

\* C32: the output log of a task stops changing once the task is terminal:
\* no line is appended to terminalOutput after its status became completed
\* or error, the output its process still writes after a stop included.
C32_LogFrozenOnceTerminal ==
    [][ \A t \in DOMAIN tasks :
          (Terminal(tasks[t].status) /\ t \in DOMAIN tasks')
          => tasks'[t].terminalOutput = tasks[t].terminalOutput ]_vars

\* The lines of the task_output notifications about t, in broadcast order.
OutputNotes(t) ==
    LET sel == SelectSeq(notes[t], LAMBDA n : n.type = "task_output")
    IN [ i \in 1..Len(sel) |-> sel[i].output ]

\* C33: every line appended to the output log of a task is also broadcast
\* as a task_output notification, so the sequence of these notifications
\* equals the log: process lines, the "[error]" line of a failed spawn and
\* the "[system] Task stopped by user" line alike.
C33_OutputNotesEqualLog ==
    \A t \in DOMAIN tasks : OutputNotes(t) = tasks[t].terminalOutput

\* The executeTask call for t ends in this step by throwing.
RejectedNow(t) == exec[t].pc # "rejected" /\ exec'[t].pc = "rejected"

\* A pass started now, whichever spawns fail, gets every task it selects
\* past the lock acquisition: the task has status running and startedAt.
PassAcquires ==
    \A fails \in SUBSET Dispatched(State) :
        LET s == runScheduler(State, fails)
        IN \A t \in Dispatched(State) :
             /\ s.tasks[t].startedAt # None
             /\ ~(s.exec[t].pc = "rejected" /\ s.tasks[t].status = "queued")

\* C34: the scheduler never triggers lock contention: for every task a
\* scheduling pass dispatches the lock acquisition at the start of
\* executeTask succeeds, in every interleaving of requests, passes and
\* completions; a call that throws has thrown after the acquisition.
C34_NoContentionFromScheduler ==
    [][ /\ PassAcquires
        /\ \A t \in Ids :
             RejectedNow(t)
             => /\ t \in DOMAIN tasks'
                /\ tasks'[t].status = "running"
                /\ tasks'[t].startedAt # None
                /\ tasks'[t].folderPath \in DOMAIN folderLocks'
                /\ folderLocks'[tasks'[t].folderPath] = t ]_vars

\* A pass dispatched u in a folder where t had ended before and v is
\* still queued behind u.
C34_Witness ==
    \E t, u, v \in DOMAIN tasks :
        /\ exec[t].pc = "done"
        /\ Terminal(tasks[t].status)
        /\ tasks[u].status = "running"
        /\ tasks[v].status = "queued"
        /\ tasks[u].folderPath = tasks[t].folderPath
        /\ tasks[v].folderPath = tasks[t].folderPath
        /\ HoldsLock(folderLocks, u)
        /\ exec[u].pc = "awaiting"
        /\ exec[v].pc = "idle"

\* C35: every task of the registry with status running has a process in
\* the running-process table, so stopTask on it returns true and leaves it
\* terminal: no task is running without being stoppable.
C35_RunningIsStoppable ==
    \A t \in DOMAIN tasks :
        tasks[t].status = "running"
        => /\ t \in runningProcesses
           /\ stopTaskResult(State, t)
           /\ Terminal(stopTask(State, t).tasks[t].status)

\* The positions of the notifications of a type among those about t.
NotesOfType(t, type) == { i \in 1..Len(notes[t]) : notes[t][i].type = type }

\* C36: for each task all its task_output notifications are broadcast
\* before its task_completed notification, and at most one task_completed
\* notification is broadcast per task.
C36_OutputBeforeCompletion ==
    \A t \in Ids :
        /\ Completions(t) <= 1
        /\ \A i \in NotesOfType(t, "task_output"),
              j \in NotesOfType(t, "task_completed") : i < j

\* A task whose process wrote a line and exited, and a task whose spawn
\* failed: both have output notifications and one completion.
C36_Witness ==
    \E t, u \in Ids :
        /\ SpawnFailed(t)
        /\ NotesOfType(t, "task_output") # {}
        /\ Completions(t) = 1
        /\ exec[u].pc = "done"
        /\ proc[u].st = "exited"
        /\ NotesOfType(u, "task_output") # {}
        /\ Completions(u) = 1

\* C37: the task_added notification of a task precedes every other
\* notification about it, and after its task_removed notification no
\* further notification (task_updated, task_output, task_completed) is
\* broadcast for that task id, also when the removed task was running.
C37_NotificationLifetime ==
    \A t \in Ids :
        /\ \A i \in NotesOfType(t, "task_added") : i = 1
        /\ notes[t] # <<>> => notes[t][1].type = "task_added"
        /\ \A i \in NotesOfType(t, "task_removed") : i = Len(notes[t])

\* C38: for every connected client, once it has handled all notifications
\* sent to it, its local taskOrder and task set equal the task order and
\* the registry of the server, also for a client that connects or
\* reconnects after tasks were created.
C38_ObserverMirror ==
    client.connected
    => /\ client.taskOrder = taskOrder
       /\ DOMAIN client.tasks = DOMAIN tasks

\* The lines followed by their line feeds, as one text.
RECURSIVE joinLines(_)
joinLines(lines) ==
    IF lines = << >> THEN << >>
    ELSE Head(lines) \o << Newline >> \o joinLines(Tail(lines))

\* The text readStream has decoded from a pipe so far: its lines in the
\* output log, without the prefix, and what is left in its buffer.
decodedText(name) ==
    LET own == logOf(name)
        bare == [ i \in 1..Len(own) |->
                    IF name = "stderr" THEN Tail(own[i]) ELSE own[i] ]
    IN joinLines(bare) \o streams.buffer[name]

\* The text a decoder fed with the bytes read from this pipe alone yields.
ownText(name) ==
    decode(<< >>, SubSeq(streams.input[name], 1, streams.pos[name])).text

\* C39: the incremental decoding of one pipe is independent of the other:
\* the text decoded from stdout depends on the bytes and chunks of stdout
\* only, and likewise for stderr, also when a chunk of one pipe ends inside
\* a multi-byte character and a chunk of the other pipe is decoded next.
C39_DecodingIndependent ==
    \A name \in StreamNames :
        ~streams.done[name] => decodedText(name) = ownText(name)

====
